---- MODULE Spec2Model ----
(***************************************************************************)
(* A model of V86Controller (src/components/v86-wrapper/V86Controller),    *)
(* the control facade over one external v86 emulator handle: attach and    *)
(* detach, the event-listener registry, the serial buffer, the serial      *)
(* pattern waiters and the command protocol built on them.                 *)
(*                                                                         *)
(* The emulator handle is the v86 library: add_listener pushes a listener  *)
(* onto the event's list (duplicates kept), remove_listener drops every    *)
(* occurrence of the listener from the event's list.                       *)
(*                                                                         *)
(* The last part models the two V86Emulator React components, which own    *)
(* an emulator each: their refs, the load they await and the effect's      *)
(* cleanup.                                                                *)
(***************************************************************************)
EXTENDS Integers, Sequences, FiniteSets, TLC

\* ---------------------------------------------------------------- bounds
MaxAttach == 3      \* attach() calls in one behaviour (one closure each)
MaxDup == 2         \* registrations of one (event, callback) on one handle
MaxEmit == 2        \* bytes the handles emit in one lifecycle behaviour
MaxCounter == 1     \* largest instruction counter a handle reports
MaxSent == 1        \* sendSerial calls in one serial behaviour
MaxWaiters == 2     \* waitForSerialOutput / executeCommand promises in one behaviour
MaxOnce == 2        \* waitForReady / waitForStarted / waitForStopped calls in one behaviour
MaxFire == 2        \* times one closure of those is called in one behaviour
MaxInst == 2        \* emulators one V86Emulator component constructs in one behaviour
MaxLoads == 2       \* loads of the v86 library one component awaits at a time
MaxProps == 2       \* calls of the callback props of one component in one behaviour

\* ------------------------------------------------------------- universe
Handles == {"h1", "h2"}
NoHandle == "null"
SerialEvent == "serial0-output-byte"
Events == {"emulator-ready", SerialEvent}
Callbacks == {<<"cb", 1>>, <<"cb", 2>>}
NoListener == <<"none", 0>>
SblClosures == {<<"sbl", n>> : n \in 1..MaxAttach}
\* the (event, callback) pairs callers pass to addListener / removeListener
Listenable == {<<"emulator-ready", <<"cb", 1>>>>, <<"emulator-ready", <<"cb", 2>>>>,
               <<SerialEvent, <<"cb", 1>>>>}
Regs == Listenable \cup ({SerialEvent} \X SblClosures)
Bytes == {65, 66}
SerialData == {<<"l", "s", "\n">>}

\* String.fromCharCode on the byte values the model's guests emit.
fromCharCode(byte) ==
    CASE byte = 10 -> "\n"
      [] byte = 13 -> "\r"
      [] byte = 32 -> " "
      [] byte = 49 -> "1"
      [] byte = 50 -> "2"
      [] byte = 54 -> "6"
      [] byte = 56 -> "8"
      [] byte = 59 -> ";"
      [] byte = 65 -> "A"
      [] byte = 66 -> "B"
      [] byte = 67 -> "C"
      [] byte = 68 -> "D"
      [] byte = 69 -> "E"
      [] byte = 77 -> "M"
      [] byte = 78 -> "N"
      [] byte = 79 -> "O"
      [] byte = 86 -> "V"
      [] byte = 95 -> "_"
      [] byte = 99 -> "c"
      [] byte = 100 -> "d"
      [] byte = 101 -> "e"
      [] byte = 104 -> "h"
      [] byte = 108 -> "l"
      [] byte = 109 -> "m"
      [] byte = 111 -> "o"
      [] byte = 120 -> "x"
      [] byte = 121 -> "y"
      [] byte = 122 -> "z"
      [] OTHER -> "?"

ByteCodes == {10, 13, 32, 49, 50, 54, 56, 59, 65, 66, 67, 68, 69, 77, 78, 79, 86, 95,
              99, 100, 101, 104, 108, 109, 111, 120, 121, 122}

\* The byte a guest puts on the wire for a character.
charCode(c) == CHOOSE b \in ByteCodes : fromCharCode(b) = c

\* the bytes a guest puts on the wire for a text
Str(text) == [i \in 1..Len(text) |-> charCode(text[i])]

\* ------------------------------------------------------------- strings
\* Strings are sequences of one-character strings.
Repeat(c, k) == [i \in 1..k |-> c]

\* String.prototype.includes
includes(s, pat) ==
    \E i \in 0..(Len(s) - Len(pat)) : SubSeq(s, i + 1, i + Len(pat)) = pat

\* String.prototype.indexOf, 0-based, -1 when absent
indexOf(s, pat) ==
    IF includes(s, pat)
    THEN CHOOSE i \in 0..(Len(s) - Len(pat)) :
            /\ SubSeq(s, i + 1, i + Len(pat)) = pat
            /\ \A j \in 0..(i - 1) : SubSeq(s, j + 1, j + Len(pat)) # pat
    ELSE -1

\* s with the n characters after its first i removed
removeAt(s, i, n) == SubSeq(s, 1, i) \o SubSeq(s, i + n + 1, Len(s))

\* s.replace(pat, ''), pat a string: the first occurrence goes
replaceFirst(s, pat) ==
    IF indexOf(s, pat) = -1 THEN s ELSE removeAt(s, indexOf(s, pat), Len(pat))

LineBreaks == {"\r", "\n"}
WhiteSpace == {" ", "\t", "\n", "\r"}

\* how many characters of s from position i (1-based) on are line breaks
RECURSIVE RunOfBreaks(_, _)
RunOfBreaks(s, i) ==
    IF i <= Len(s) /\ s[i] \in LineBreaks THEN 1 + RunOfBreaks(s, i + 1) ELSE 0

\* s.replace(new RegExp(`${pat}[\\r\\n]*`), ''), pat of plain characters
replaceWithBreaks(s, pat) ==
    IF indexOf(s, pat) = -1 THEN s
    ELSE removeAt(s, indexOf(s, pat),
                  Len(pat) + RunOfBreaks(s, indexOf(s, pat) + Len(pat) + 1))

\* String.prototype.trim
RECURSIVE trimStart(_)
trimStart(s) == IF s # <<>> /\ Head(s) \in WhiteSpace THEN trimStart(Tail(s)) ELSE s

RECURSIVE trimEnd(_)
trimEnd(s) ==
    IF s # <<>> /\ s[Len(s)] \in WhiteSpace THEN trimEnd(SubSeq(s, 1, Len(s) - 1)) ELSE s

trim(s) == trimEnd(trimStart(s))

\* ---------------------------------------------------------------- state
VARIABLES
    \* V86Controller's fields
    emulator,            \* the attached handle, or NoHandle
    serialBuffer,        \* string
    serialListeners,     \* Set of listeners: 0 is an onSerialOutput listener, i > 0 is waiters[i]'s
    eventListeners,      \* Map event -> Set of callbacks
    serialByteListener,  \* the closure setupSerialListener made last, or NoListener
    \* closures the controller's promises hold
    waiters,             \* waitForSerialOutput / executeCommand promises, in call order
    heard,               \* what the onSerialOutput listener has been called with
    \* the emulator handles (the v86 library)
    hreg,                \* handle -> (event, listener) -> times registered
    hrun,                \* handle -> is_running()
    sent,                \* serial0_send calls: <<handle, data>>, in order
    \* what the last operation was and did
    lastOp,              \* [op, emu]: operation name, and emulator when it was called
    calls,               \* handle methods the last operation called
    ret,                 \* what the last operation returned
    \* history
    nSbl,                \* serial byte closures created so far
    nEmit,               \* bytes emitted so far by all handles
    emitLog,             \* bytes the attached handle emitted since the last detach or clear
    rebound,             \* attach was called while another handle was attached
    \* the guest
    script,              \* bytes the guest has still to emit, when it follows a script
    tty,                 \* whether the guest's terminal echoes the lines it reads
    \* the executeCommands call
    seq,                 \* its commands, the promises awaited so far, its results
    \* the destroy call
    dst,                 \* where it is, the handle it destroys, what the handle answered
    \* the handles, continued
    hthrow,              \* handle -> its remove_listener throws
    screen,              \* the text screen of the guest, rows
    \* closures, continued
    sw,                  \* waitForScreenText promises, in call order
    \* history, continued
    orphans,             \* waiters that were pending when detach ran
    once,                \* the listener closures of waitForReady / Started / Stopped, in call order
    \* a V86Emulator React component
    comp                 \* its refs, the loads it awaits and the emulators it constructed

ctlVars == <<emulator, serialBuffer, serialListeners, eventListeners, serialByteListener>>
promiseVars == <<waiters, heard>>
handleVars == <<hreg, hrun, sent>>
obsVars == <<lastOp, calls, ret>>
histVars == <<nSbl, nEmit, emitLog, rebound>>
restVars == <<dst, hthrow, orphans, sw, screen, once, comp>>
vars == <<ctlVars, promiseVars, handleVars, obsVars, histVars, script, seq, tty, restVars>>

\* JavaScript values as returned to the caller, as strings
Undefined == <<"undefined">>
JsBool(b) == IF b THEN <<"true">> ELSE <<"false">>
JsNumber(n) == <<"number", ToString(n)>>
JsString(s) == <<"string">> \o s
JsArray(a) == <<"array">> \o a

Op(name) == [op |-> name, emu |-> emulator]

\* ------------------------------------------------------ the v86 handle
\* V86.add_listener: bus.register pushes the listener
add_listener(reg, h, event, listener) ==
    [reg EXCEPT ![h][<<event, listener>>] = @ + 1]

\* V86.remove_listener: bus.unregister filters the listener out
remove_listener(reg, h, event, listener) ==
    [reg EXCEPT ![h][<<event, listener>>] = 0]

RECURSIVE RemoveAll(_, _, _)
RemoveAll(reg, h, pairs) ==
    IF pairs = {} THEN reg
    ELSE LET p == CHOOSE q \in pairs : TRUE
         IN RemoveAll(remove_listener(reg, h, p[1], p[2]), h, pairs \ {p})

\* every (event, callback) pair of the eventListeners Map
RegistryPairs(map) == {p \in Listenable : p[2] \in map[p[1]]}

\* serial byte closures of the controller registered on h, with multiplicity
RECURSIVE SumReg(_, _)
SumReg(f, rs) ==
    IF rs = {} THEN 0
    ELSE LET r == CHOOSE q \in rs : TRUE IN f[r] + SumReg(f, rs \ {r})

SblCount(h) == SumReg(hreg[h], {SerialEvent} \X SblClosures)

\* ----------------------------------------------------- promise closures
resolve(w, v) ==
    IF w.state = "pending" THEN [w EXCEPT !.state = "resolved", !.value = v] ELSE w

reject(w, err) ==
    IF w.state = "pending" THEN [w EXCEPT !.state = "rejected", !.value = err] ELSE w

\* --------------------------------------------- waitForSerialOutput
\* A promise closure of waitForSerialOutput (kind "wait") or executeCommand
\* (kind "cmd"): expected is the pattern or the end marker, buffer the
\* closure's own accumulator, timer whether its setTimeout is still set.
TimeoutError(expected) == <<"Timeout waiting for serial output: ">> \o expected

\* buffer.includes(expected), or buffer.match(expected) for a RegExp of literal text
Matches(w, buffer) == includes(buffer, w.expected)

\* what checkMatch resolves with: the whole buffer, or match[0] for a RegExp
MatchValue(w, buffer) == IF w.isRegExp THEN w.expected ELSE buffer

\* checkMatch(): on a match cleanup() clears the timer, and resolve
checkMatch(w) ==
    IF Matches(w, w.buffer)
    THEN resolve([w EXCEPT !.timer = FALSE], MatchValue(w, w.buffer))
    ELSE w

\* the closure's serial listener: buffer += char; checkMatch()
waitListener(w, char) == checkMatch([w EXCEPT !.buffer = Append(@, char)])

\* ------------------------------------------------------ executeCommand
DefaultTimeout == 30000
DefaultEndMarker == <<"_", "_", "_", "V", "8", "6", "_", "C", "M", "D", "_",
                      "D", "O", "N", "E", "_", "_", "_">>
Echo == <<"e", "c", "h", "o", " ">>

CommandTimeoutError(command, timeout) ==
    <<"Command timeout after ", ToString(timeout), "ms: ">> \o command

\* cleanOutput without the final trim()
cleanOutput_noTrim(output, endMarker) ==
    replaceFirst(replaceWithBreaks(output, Echo \o endMarker), endMarker)

\* output.replace(/echo <endMarker>[\r\n]*/, '').replace(endMarker, '').trim()
cleanOutput(output, endMarker) ==
    trim(replaceFirst(replaceWithBreaks(output, Echo \o endMarker), endMarker))

\* the command's serial listener: output += char; on the end marker cleanup()
\* and resolve with the cleaned output
commandListener(w, char) ==
    LET output == Append(w.buffer, char)
    IN IF includes(output, w.expected)
       THEN resolve([w EXCEPT !.buffer = output, !.timer = FALSE],
                    cleanOutput(output, w.expected))
       ELSE [w EXCEPT !.buffer = output]

\* ------------------------------------------------ serial byte listener
\* One call of a serial listener the controller holds for a promise.
SerialListenerCall(w, char) ==
    IF w.kind = "cmd" THEN commandListener(w, char) ELSE waitListener(w, char)

\* whether that call ran cleanup(), which deletes the listener from serialListeners
SerialListenerDone(w, char) == Matches(w, Append(w.buffer, char))

\* The closure of setupSerialListener, called once with one byte:
\* serialBuffer += char, then every serial listener is called with char.
\* OnByte with the character put in front of the buffer instead of behind it
OnByte_prepend(st, byte) ==
    LET char == fromCharCode(byte)
        ws == [i \in DOMAIN st.ws |->
                 IF i \in st.ls THEN SerialListenerCall(st.ws[i], char) ELSE st.ws[i]]
    IN [buf |-> <<char>> \o st.buf,
        ls |-> {i \in st.ls : i = 0 \/ ~SerialListenerDone(st.ws[i], char)},
        ws |-> ws,
        heard |-> IF 0 \in st.ls THEN Append(st.heard, char) ELSE st.heard]

OnByte(st, byte) ==
    LET char == fromCharCode(byte)
        ws == [i \in DOMAIN st.ws |->
                 IF i \in st.ls THEN SerialListenerCall(st.ws[i], char) ELSE st.ws[i]]
    IN [buf |-> Append(st.buf, char),
        ls |-> {i \in st.ls : i = 0 \/ ~SerialListenerDone(st.ws[i], char)},
        ws |-> ws,
        heard |-> IF 0 \in st.ls THEN Append(st.heard, char) ELSE st.heard]

RECURSIVE OnByteTimes(_, _, _)
OnByteTimes(st, byte, k) ==
    IF k = 0 THEN st ELSE OnByteTimes(OnByte(st, byte), byte, k - 1)

\* ------------------------------------------------------------ lifecycle
NoSeq == [state |-> "idle", cmds |-> <<>>, ids |-> <<>>, results |-> <<>>,
          error |-> <<>>]

NoDestroy == [state |-> "idle", h |-> NoHandle, ack |-> "none"]

\* what a call that threw returns
Thrown == <<"throws">>

\* A V86Emulator component after its first render: the useRef initial values,
\* no load awaited, no emulator constructed, no callback prop called (props
\* lists the events passed on to the props).  phase is React's: "rendered"
\* before the effect ran, "mounted" while it is in force, "unmounted" after
\* the final cleanup.
NoComp == [phase |-> "rendered", isMounted |-> TRUE, isInitialized |-> FALSE,
           emulatorRef |-> 0, listeners |-> {}, loads |-> 0, insts |-> <<>>,
           props |-> <<>>]

Init ==
    /\ emulator = NoHandle
    /\ serialBuffer = <<>>
    /\ serialListeners = {}
    /\ eventListeners = [e \in Events |-> {}]
    /\ serialByteListener = NoListener
    /\ waiters = <<>>
    /\ heard = <<>>
    /\ hreg = [h \in Handles |-> [r \in Regs |-> 0]]
    /\ hrun = [h \in Handles |-> FALSE]
    /\ sent = <<>>
    /\ lastOp = [op |-> "new", emu |-> NoHandle]
    /\ calls = 0
    /\ ret = Undefined
    /\ nSbl = 0
    /\ nEmit = 0
    /\ emitLog = <<>>
    /\ rebound = FALSE
    /\ script = <<>>
    /\ seq = NoSeq
    /\ tty = FALSE
    /\ dst = NoDestroy
    /\ hthrow = [h \in Handles |-> FALSE]
    /\ orphans = {}
    /\ once = <<>>
    /\ comp = NoComp
    /\ sw = <<>>
    /\ screen = <<>>

\* setupSerialListener without the removal of the closure made before
setupSerialListener_noRemove(h) ==
    LET closure == <<"sbl", nSbl + 1>>
    IN /\ serialByteListener' = closure
       /\ nSbl' = nSbl + 1
       /\ hreg' = add_listener(hreg, h, SerialEvent, closure)
       /\ calls' = 1

\* setupSerialListener, with this.emulator already set to h
setupSerialListener(h) ==
    LET removed == IF serialByteListener # NoListener
                   THEN remove_listener(hreg, h, SerialEvent, serialByteListener)
                   ELSE hreg
        closure == <<"sbl", nSbl + 1>>
    IN /\ serialByteListener' = closure
       /\ nSbl' = nSbl + 1
       /\ hreg' = add_listener(removed, h, SerialEvent, closure)
       /\ calls' = IF serialByteListener # NoListener THEN 2 ELSE 1

attach(h) ==
    /\ nSbl < MaxAttach
    /\ emulator' = h
    /\ setupSerialListener(h)
    /\ rebound' = (rebound \/ emulator \notin {NoHandle, h})
    /\ lastOp' = Op("attach")
    /\ ret' = Undefined
    /\ UNCHANGED <<script, seq, tty, restVars, serialBuffer, serialListeners, eventListeners, promiseVars,
                   hrun, sent, nEmit, emitLog>>

\* detach without the reset of the serial buffer
detach_keepBuffer ==
    LET sbl == IF serialByteListener # NoListener /\ emulator # NoHandle
               THEN {<<SerialEvent, serialByteListener>>} ELSE {}
        tracked == IF emulator # NoHandle THEN RegistryPairs(eventListeners) ELSE {}
    IN /\ hreg' = IF emulator # NoHandle
                  THEN RemoveAll(hreg, emulator, sbl \cup tracked)
                  ELSE hreg
       /\ calls' = Cardinality(sbl) + Cardinality(tracked)
       /\ serialByteListener' = IF sbl # {} THEN NoListener ELSE serialByteListener
       /\ eventListeners' = [e \in Events |-> {}]
       /\ emulator' = NoHandle
       /\ serialListeners' = {}
       /\ lastOp' = Op("detach")
       /\ ret' = Undefined
       /\ orphans' = orphans \cup {i \in DOMAIN waiters : waiters[i].state = "pending"}
       /\ UNCHANGED <<script, seq, tty, hthrow, sw, screen, once, comp, serialBuffer, emitLog, promiseVars,
                      hrun, sent, nSbl, nEmit, rebound>>

detach ==
    LET sbl == IF serialByteListener # NoListener /\ emulator # NoHandle
               THEN {<<SerialEvent, serialByteListener>>} ELSE {}
        tracked == IF emulator # NoHandle THEN RegistryPairs(eventListeners) ELSE {}
    IN IF emulator # NoHandle /\ hthrow[emulator] /\ sbl \cup tracked # {}
       THEN \* the first remove_listener call throws, out of detach
            /\ calls' = 1
            /\ lastOp' = Op("detach")
            /\ ret' = Thrown
            /\ UNCHANGED <<script, seq, tty, hthrow, sw, screen, orphans, once, comp, ctlVars,
                           promiseVars, handleVars, histVars>>
       ELSE /\ hreg' = IF emulator # NoHandle
                       THEN RemoveAll(hreg, emulator, sbl \cup tracked)
                       ELSE hreg
            /\ calls' = Cardinality(sbl) + Cardinality(tracked)
            /\ serialByteListener' = IF sbl # {} THEN NoListener ELSE serialByteListener
            /\ eventListeners' = [e \in Events |-> {}]
            /\ emulator' = NoHandle
            /\ serialBuffer' = <<>>
            /\ serialListeners' = {}
            /\ emitLog' = <<>>
            /\ lastOp' = Op("detach")
            /\ ret' = Undefined
            /\ orphans' = orphans \cup {i \in DOMAIN waiters : waiters[i].state = "pending"}
            /\ UNCHANGED <<script, seq, tty, hthrow, sw, screen, once, comp, promiseVars,
                           hrun, sent, nSbl, nEmit, rebound>>

addListener(event, callback) ==
    /\ emulator # NoHandle => hreg[emulator][<<event, callback>>] < MaxDup
    /\ hreg' = IF emulator # NoHandle
               THEN add_listener(hreg, emulator, event, callback)
               ELSE hreg
    /\ calls' = IF emulator # NoHandle THEN 1 ELSE 0
    /\ eventListeners' = [eventListeners EXCEPT ![event] = @ \cup {callback}]
    /\ lastOp' = Op("addListener")
    /\ ret' = Undefined
    /\ UNCHANGED <<script, seq, tty, restVars, emulator, serialBuffer, serialListeners, serialByteListener,
                   promiseVars, hrun, sent, histVars>>

\* removeListener that forgets the callback without unregistering it from the handle
removeListener_registryOnly(event, callback) ==
    /\ calls' = 0
    /\ eventListeners' = [eventListeners EXCEPT ![event] = @ \ {callback}]
    /\ lastOp' = Op("removeListener")
    /\ ret' = Undefined
    /\ UNCHANGED <<script, seq, tty, restVars, emulator, serialBuffer, serialListeners, serialByteListener,
                   promiseVars, handleVars, histVars>>

removeListener(event, callback) ==
    /\ hreg' = IF emulator # NoHandle
               THEN remove_listener(hreg, emulator, event, callback)
               ELSE hreg
    /\ calls' = IF emulator # NoHandle THEN 1 ELSE 0
    /\ eventListeners' = [eventListeners EXCEPT ![event] = @ \ {callback}]
    /\ lastOp' = Op("removeListener")
    /\ ret' = Undefined
    /\ UNCHANGED <<script, seq, tty, restVars, emulator, serialBuffer, serialListeners, serialByteListener,
                   promiseVars, hrun, sent, histVars>>

\* The handle h emits one byte on serial0-output-byte: the bus calls every
\* listener registered for the event, once per registration.
EmitByte(h, byte) ==
    LET st == OnByteTimes([buf |-> serialBuffer, ls |-> serialListeners,
                           ws |-> waiters, heard |-> heard], byte, SblCount(h))
    IN /\ serialBuffer' = st.buf
       /\ serialListeners' = st.ls
       /\ waiters' = st.ws
       /\ heard' = st.heard
       /\ nEmit' = nEmit + 1
       /\ emitLog' = IF h = emulator THEN Append(emitLog, byte) ELSE emitLog
       /\ lastOp' = [op |-> "emit", emu |-> h]
       /\ calls' = 0
       /\ ret' = Undefined
       /\ UNCHANGED <<emulator, eventListeners, serialByteListener, handleVars,
                      nSbl, rebound>>

Emit ==
    /\ nEmit < MaxEmit
    /\ \E h \in Handles, byte \in Bytes : EmitByte(h, byte)
    /\ UNCHANGED <<script, seq, tty, restVars>>

onSerialOutput ==
    /\ serialListeners' = serialListeners \cup {0}
    /\ lastOp' = Op("onSerialOutput")
    /\ calls' = 0
    /\ ret' = Undefined
    /\ UNCHANGED <<script, seq, tty, restVars, emulator, serialBuffer, eventListeners, serialByteListener,
                   promiseVars, handleVars, histVars>>

\* clearSerialBuffer that also empties the text of the pending promises
clearSerialBuffer_wipeWaiters ==
    /\ serialBuffer' = <<>>
    /\ emitLog' = <<>>
    /\ waiters' = [i \in DOMAIN waiters |->
                     IF waiters[i].state = "pending"
                     THEN [waiters[i] EXCEPT !.buffer = <<>>] ELSE waiters[i]]
    /\ lastOp' = Op("clearSerialBuffer")
    /\ calls' = 0
    /\ ret' = Undefined
    /\ UNCHANGED <<script, seq, tty, restVars, emulator, serialListeners, eventListeners, serialByteListener,
                   heard, handleVars, nSbl, nEmit, rebound>>

clearSerialBuffer ==
    /\ serialBuffer' = <<>>
    /\ emitLog' = <<>>
    /\ lastOp' = Op("clearSerialBuffer")
    /\ calls' = 0
    /\ ret' = Undefined
    /\ UNCHANGED <<script, seq, tty, restVars, emulator, serialListeners, eventListeners, serialByteListener,
                   promiseVars, handleVars, nSbl, nEmit, rebound>>


\* ------------------------------------------------- waitForSerialOutput
\* waitForSerialOutput whose buffer starts empty instead of seeded
waitForSerialOutput_unseeded(expected, isRegExp, timeout_msec) ==
    LET id == Len(waiters) + 1
        w == checkMatch([kind |-> "wait", expected |-> expected, isRegExp |-> isRegExp,
                         command |-> <<>>, timeout |-> timeout_msec,
                         buffer |-> <<>>, timer |-> (timeout_msec > 0),
                         state |-> "pending", value |-> <<>>,
                         fresh |-> (serialBuffer = <<>>)])
    IN /\ Len(waiters) < MaxWaiters
       /\ waiters' = Append(waiters, w)
       /\ serialListeners' = IF Matches(w, <<>>) THEN serialListeners \ {id}
                             ELSE serialListeners \cup {id}
       /\ lastOp' = Op("waitForSerialOutput")
       /\ calls' = 0
       /\ ret' = <<"promise", ToString(id)>>
       /\ UNCHANGED <<script, seq, tty, restVars, emulator, serialBuffer, eventListeners, serialByteListener,
                      heard, handleVars, histVars>>

\* waitForSerialOutput arming its timer whatever the timeout is
waitForSerialOutput_deadline(expected, isRegExp, timeout_msec) ==
    LET id == Len(waiters) + 1
        w == checkMatch([kind |-> "wait", expected |-> expected, isRegExp |-> isRegExp,
                         command |-> <<>>, timeout |-> timeout_msec,
                         buffer |-> serialBuffer, timer |-> TRUE,
                         state |-> "pending", value |-> <<>>,
                         fresh |-> (serialBuffer = <<>>)])
    IN /\ Len(waiters) < MaxWaiters
       /\ waiters' = Append(waiters, w)
       /\ serialListeners' = IF Matches(w, serialBuffer) THEN serialListeners \ {id}
                             ELSE serialListeners \cup {id}
       /\ lastOp' = Op("waitForSerialOutput")
       /\ calls' = 0
       /\ ret' = <<"promise", ToString(id)>>
       /\ UNCHANGED <<script, seq, tty, restVars, emulator, serialBuffer, eventListeners, serialByteListener,
                      heard, handleVars, histVars>>

waitForSerialOutput(expected, isRegExp, timeout_msec) ==
    LET id == Len(waiters) + 1
        w == checkMatch([kind |-> "wait", expected |-> expected, isRegExp |-> isRegExp,
                         command |-> <<>>, timeout |-> timeout_msec,
                         buffer |-> serialBuffer, timer |-> (timeout_msec > 0),
                         state |-> "pending", value |-> <<>>,
                         fresh |-> (serialBuffer = <<>>)])
    IN /\ Len(waiters) < MaxWaiters
       /\ waiters' = Append(waiters, w)
       /\ serialListeners' = IF Matches(w, serialBuffer) THEN serialListeners \ {id}
                             ELSE serialListeners \cup {id}
       /\ lastOp' = Op("waitForSerialOutput")
       /\ calls' = 0
       /\ ret' = <<"promise", ToString(id)>>
       /\ UNCHANGED <<script, seq, tty, restVars, emulator, serialBuffer, eventListeners, serialByteListener,
                      heard, handleVars, histVars>>

\* the setTimeout callbacks all rejecting with the pattern waiter's error
TimerError_pattern(w) == TimeoutError(w.expected)

\* what the setTimeout callback of a promise rejects with
TimerError(w) ==
    IF w.kind = "cmd" THEN CommandTimeoutError(w.command, w.timeout)
    ELSE TimeoutError(w.expected)

\* the timeout callback with cleanup() emptying serialListeners
timeoutFires_clearAll(i) ==
    /\ i \in DOMAIN waiters
    /\ waiters[i].timer
    /\ waiters' = [waiters EXCEPT ![i] =
                     reject([@ EXCEPT !.timer = FALSE], TimerError(@))]
    /\ serialListeners' = {}
    /\ lastOp' = [op |-> "timeout", emu |-> emulator]
    /\ calls' = 0
    /\ ret' = Undefined
    /\ UNCHANGED <<script, seq, tty, restVars, emulator, serialBuffer, eventListeners, serialByteListener,
                   heard, handleVars, histVars>>

\* the timeout callback with cleanup() leaving the listener in serialListeners
timeoutFires_keepListener(i) ==
    /\ i \in DOMAIN waiters
    /\ waiters[i].timer
    /\ waiters' = [waiters EXCEPT ![i] =
                     reject([@ EXCEPT !.timer = FALSE], TimerError(@))]
    /\ lastOp' = [op |-> "timeout", emu |-> emulator]
    /\ calls' = 0
    /\ ret' = Undefined
    /\ UNCHANGED <<script, seq, tty, restVars, emulator, serialBuffer, serialListeners, eventListeners,
                   serialByteListener, heard, handleVars, histVars>>

\* a promise closure after its setTimeout callback; the output a command had
\* gathered is garbage from then on, nothing reads it again
timedOut(w) ==
    LET r == reject([w EXCEPT !.timer = FALSE], TimerError(w))
    IN IF w.kind = "cmd" THEN [r EXCEPT !.buffer = <<>>] ELSE r

\* the setTimeout callback of waiters[i]: cleanup(), then reject
timeoutFires(i) ==
    /\ i \in DOMAIN waiters
    /\ waiters[i].timer
    /\ waiters' = [waiters EXCEPT ![i] = timedOut(@)]
    /\ serialListeners' = serialListeners \ {i}
    /\ lastOp' = [op |-> "timeout", emu |-> emulator]
    /\ calls' = 0
    /\ ret' = Undefined
    /\ UNCHANGED <<script, seq, tty, restVars, emulator, serialBuffer, eventListeners, serialByteListener,
                   heard, handleVars, histVars>>

\* the guest emits the next byte of its script on the attached handle
FeedByte(h) ==
    /\ script # <<>>
    /\ EmitByte(h, Head(script))
    /\ script' = Tail(script)
    /\ UNCHANGED <<seq, tty, restVars>>

\* ----------------------------------------------- the guest as a shell
\* What a POSIX shell on the serial console prints for "<command>; echo <marker>\n":
\* the command's output, then the marker and a line break.
ShellOutput(command) ==
    CASE command = <<"e", "c", "h", "o", " ", "h", "e", "l", "l", "o">>
            -> <<"h", "e", "l", "l", "o", "\n">>
      [] command = <<"c", "m", "d", "1">> -> <<"1", "\n">>
      [] command = <<"c", "m", "d", "2">> -> <<"2", "\n">>
      [] OTHER -> <<>>

ShellReply(line) ==
    LET sep == <<";", " ">> \o Echo
        i == indexOf(line, sep)
    IN IF i = -1 \/ line[Len(line)] # "\n" THEN <<>>
       ELSE ShellOutput(SubSeq(line, 1, i))
            \o SubSeq(line, i + Len(sep) + 1, Len(line) - 1) \o <<"\n">>

\* What the guest prints when it reads a line from serial input: the line
\* itself first when its terminal echoes.
GuestReply(line) ==
    IF tty THEN SubSeq(line, 1, Len(line) - 1) \o <<"\r", "\n">> \o ShellReply(line)
    ELSE ShellReply(line)

\* ------------------------------------------------------ executeCommand
\* executeCommand with its output starting from the serial buffer
executeCommand_seeded(command, timeout, endMarker) ==
    LET id == Len(waiters) + 1
        line == command \o <<";", " ">> \o Echo \o endMarker \o <<"\n">>
    IN /\ Len(waiters) < MaxWaiters
       /\ waiters' = Append(waiters,
             [kind |-> "cmd", expected |-> endMarker, isRegExp |-> FALSE,
              command |-> command, timeout |-> timeout,
              buffer |-> serialBuffer, timer |-> TRUE,
              state |-> "pending", value |-> <<>>,
              fresh |-> (serialBuffer = <<>>), since |-> nEmit])
       /\ serialListeners' = serialListeners \cup {id}
       /\ sent' = IF emulator # NoHandle THEN Append(sent, <<emulator, line>>) ELSE sent
       /\ script' = IF emulator # NoHandle THEN script \o Str(GuestReply(line)) ELSE script
       /\ calls' = IF emulator # NoHandle THEN 1 ELSE 0
       /\ UNCHANGED <<emulator, serialBuffer, eventListeners, serialByteListener,
                      heard, hreg, hrun, histVars>>

\* executeCommand(command, {timeout, endMarker}) up to the promise it returns
executeCommand(command, timeout, endMarker) ==
    LET id == Len(waiters) + 1
        line == command \o <<";", " ">> \o Echo \o endMarker \o <<"\n">>
    IN /\ Len(waiters) < MaxWaiters
       /\ waiters' = Append(waiters,
             [kind |-> "cmd", expected |-> endMarker, isRegExp |-> FALSE,
              command |-> command, timeout |-> timeout,
              buffer |-> <<>>, timer |-> TRUE,
              state |-> "pending", value |-> <<>>,
              fresh |-> (serialBuffer = <<>>), since |-> nEmit])
       /\ serialListeners' = serialListeners \cup {id}
       /\ sent' = IF emulator # NoHandle THEN Append(sent, <<emulator, line>>) ELSE sent
       /\ script' = IF emulator # NoHandle THEN script \o Str(GuestReply(line)) ELSE script
       /\ calls' = IF emulator # NoHandle THEN 1 ELSE 0
       /\ UNCHANGED <<emulator, serialBuffer, eventListeners, serialByteListener,
                      heard, hreg, hrun, histVars>>

executeCommandCall(command, timeout, endMarker) ==
    /\ executeCommand(command, timeout, endMarker)
    /\ lastOp' = Op("executeCommand")
    /\ ret' = <<"promise", ToString(Len(waiters) + 1)>>
    /\ UNCHANGED <<seq, tty, restVars>>

\* ----------------------------------------------------- executeCommands
\* the call, up to its first await
executeCommands(commands, timeout, endMarker) ==
    /\ seq.state = "idle"
    /\ Len(waiters) + Len(commands) <= MaxWaiters
    /\ lastOp' = Op("executeCommands")
    /\ ret' = <<"promise", "seq">>
    /\ IF commands = <<>>
       THEN /\ seq' = [NoSeq EXCEPT !.state = "resolved"]
            /\ calls' = 0
            /\ UNCHANGED <<ctlVars, promiseVars, handleVars, histVars, script, tty, restVars>>
       ELSE /\ executeCommand(commands[1], timeout, endMarker)
            /\ seq' = [NoSeq EXCEPT !.state = "running", !.cmds = commands,
                                    !.ids = <<Len(waiters) + 1>>]
            /\ UNCHANGED <<tty, restVars>>

\* the loop resumed with the results pushed in front
continueCommands_unshift ==
    LET w == waiters[seq.ids[Len(seq.ids)]]
        results == <<w.value>> \o seq.results
    IN /\ seq.state = "running"
       /\ w.state # "pending"
       /\ lastOp' = Op("executeCommands:resume")
       /\ ret' = Undefined
       /\ IF w.state = "rejected"
          THEN /\ seq' = [seq EXCEPT !.state = "rejected", !.error = w.value]
               /\ calls' = 0
               /\ UNCHANGED <<ctlVars, promiseVars, handleVars, histVars, script, tty, restVars>>
          ELSE IF Len(seq.ids) < Len(seq.cmds)
          THEN /\ executeCommand(seq.cmds[Len(seq.ids) + 1], w.timeout, w.expected)
               /\ seq' = [seq EXCEPT !.results = results,
                                     !.ids = Append(@, Len(waiters) + 1)]
               /\ UNCHANGED <<tty, restVars>>
          ELSE /\ seq' = [seq EXCEPT !.results = results, !.state = "resolved"]
               /\ calls' = 0
               /\ UNCHANGED <<ctlVars, promiseVars, handleVars, histVars, script, tty, restVars>>

\* the loop resumed with a rejection taken for a result
continueCommands_swallow ==
    LET w == waiters[seq.ids[Len(seq.ids)]]
        results == Append(seq.results, w.value)
    IN /\ seq.state = "running"
       /\ w.state # "pending"
       /\ lastOp' = Op("executeCommands:resume")
       /\ ret' = Undefined
       /\ IF Len(seq.ids) < Len(seq.cmds)
          THEN /\ executeCommand(seq.cmds[Len(seq.ids) + 1], w.timeout, w.expected)
               /\ seq' = [seq EXCEPT !.results = results,
                                     !.ids = Append(@, Len(waiters) + 1)]
               /\ UNCHANGED <<tty, restVars>>
          ELSE /\ seq' = [seq EXCEPT !.results = results, !.state = "resolved"]
               /\ calls' = 0
               /\ UNCHANGED <<ctlVars, promiseVars, handleVars, histVars, script, tty, restVars>>

\* the loop resumed after await this.executeCommand(cmd) settled: a rejection is
\* thrown out of the function, a result is pushed and the next command executed
continueCommands ==
    LET w == waiters[seq.ids[Len(seq.ids)]]
        results == Append(seq.results, w.value)
    IN /\ seq.state = "running"
       /\ w.state # "pending"
       /\ lastOp' = Op("executeCommands:resume")
       /\ ret' = Undefined
       /\ IF w.state = "rejected"
          THEN /\ seq' = [seq EXCEPT !.state = "rejected", !.error = w.value]
               /\ calls' = 0
               /\ UNCHANGED <<ctlVars, promiseVars, handleVars, histVars, script, tty, restVars>>
          ELSE IF Len(seq.ids) < Len(seq.cmds)
          THEN /\ executeCommand(seq.cmds[Len(seq.ids) + 1], w.timeout, w.expected)
               /\ seq' = [seq EXCEPT !.results = results,
                                     !.ids = Append(@, Len(waiters) + 1)]
               /\ UNCHANGED <<tty, restVars>>
          ELSE /\ seq' = [seq EXCEPT !.results = results, !.state = "resolved"]
               /\ calls' = 0
               /\ UNCHANGED <<ctlVars, promiseVars, handleVars, histVars, script, tty, restVars>>

\* ------------------------------------------------------------- destroy
\* destroy() up to its await: this.emulator?.destroy() is called, or nothing
\* when unattached, and the rest waits for the handle's promise
destroyCall ==
    /\ dst.state = "idle"
    /\ dst' = IF emulator # NoHandle
              THEN [state |-> "awaiting", h |-> emulator, ack |-> "pending"]
              ELSE [state |-> "awaiting", h |-> NoHandle, ack |-> "fulfilled"]
    /\ calls' = IF emulator # NoHandle THEN 1 ELSE 0
    /\ lastOp' = Op("destroy")
    /\ ret' = <<"promise", "destroy">>
    /\ UNCHANGED <<script, seq, tty, hthrow, orphans, once, comp, sw, screen, ctlVars, promiseVars,
                   handleVars, histVars>>

\* the handle settles the promise its destroy() returned
handleDestroySettles(fulfilled) ==
    /\ dst.state = "awaiting"
    /\ dst.ack = "pending"
    /\ dst' = [dst EXCEPT !.ack = IF fulfilled THEN "fulfilled" ELSE "rejected"]
    /\ calls' = 0
    /\ lastOp' = Op("handle:destroy")
    /\ ret' = Undefined
    /\ UNCHANGED <<script, seq, tty, hthrow, orphans, once, comp, sw, screen, ctlVars, promiseVars,
                   handleVars, histVars>>

\* destroy() going on to this.detach() without the await
destroyResume_noAwait ==
    /\ dst.state = "awaiting"
    /\ IF dst.ack = "rejected"
       THEN /\ dst' = [dst EXCEPT !.state = "rejected"]
            /\ calls' = 0
            /\ lastOp' = Op("destroy:rejected")
            /\ ret' = Undefined
            /\ UNCHANGED <<script, seq, tty, hthrow, orphans, once, comp, sw, screen, ctlVars,
                           promiseVars, handleVars, histVars>>
       ELSE /\ detach
            /\ dst' = [dst EXCEPT !.state = IF ret' = Thrown THEN "rejected" ELSE "resolved"]

\* destroy() after its await: a rejection of the handle's promise is thrown
\* out of destroy(), a fulfilment is followed by this.detach()
destroyResume ==
    /\ dst.state = "awaiting"
    /\ dst.ack # "pending"
    /\ IF dst.ack = "rejected"
       THEN /\ dst' = [dst EXCEPT !.state = "rejected"]
            /\ calls' = 0
            /\ lastOp' = Op("destroy:rejected")
            /\ ret' = Undefined
            /\ UNCHANGED <<script, seq, tty, hthrow, orphans, once, comp, sw, screen, ctlVars,
                           promiseVars, handleVars, histVars>>
       ELSE /\ detach
            /\ dst' = [dst EXCEPT !.state = IF ret' = Thrown THEN "rejected" ELSE "resolved"]

\* the handle h reaches a state in which its remove_listener throws
handleBreaks(h) ==
    /\ ~hthrow[h]
    /\ hthrow' = [hthrow EXCEPT ![h] = TRUE]
    /\ calls' = 0
    /\ lastOp' = Op("handle:breaks")
    /\ ret' = Undefined
    /\ UNCHANGED <<script, seq, tty, dst, orphans, once, comp, sw, screen, ctlVars, promiseVars,
                   handleVars, histVars>>

\* --------------------------------------------------- waitForScreenText
\* rows.join('\n')
RECURSIVE join(_)
join(rows) ==
    IF rows = <<>> THEN <<>>
    ELSE IF Len(rows) = 1 THEN rows[1]
    ELSE rows[1] \o <<"\n">> \o join(Tail(rows))

\* getScreenText() of a handle that has a screen adapter
getScreenText == IF emulator # NoHandle THEN join(screen) ELSE <<>>

\* checkScreen's loop over literal patterns: some pattern is in the screen text
screenMatches(patterns) ==
    \E k \in DOMAIN patterns : includes(getScreenText, patterns[k])

ReferenceError == <<"ReferenceError: Cannot access 'timeoutId' before initialization">>

\* cleanup() once intervalId and timeoutId are initialised, then resolve(v)
screenSettle(w, v) ==
    [w EXCEPT !.interval = FALSE, !.timer = FALSE,
              !.state = IF @ = "pending" THEN "resolved" ELSE @,
              !.value = IF w.state = "pending" THEN v ELSE @]

\* waitForScreenText(expected, {timeout_msec}): checkScreen() runs before the
\* const intervalId and const timeoutId that cleanup() reads are initialised.
\* On a screen that matches already, cleanup() either throws the
\* ReferenceError of an uninitialised const out of the executor, which
\* rejects the promise before any timer exists, or, in a build that turns
\* const into var, reads undefined and clears nothing: resolve(true), and the
\* interval and the timeout are then installed all the same.
waitForScreenText(patterns, timeout_msec) ==
    LET pending == [patterns |-> patterns, timeout |-> timeout_msec,
                    interval |-> TRUE, timer |-> (timeout_msec > 0),
                    state |-> "pending", value |-> <<>>]
    IN /\ Len(sw) < MaxWaiters
       /\ \E constKept \in BOOLEAN :
             sw' = Append(sw,
                     IF ~screenMatches(patterns) THEN pending
                     ELSE IF constKept
                     THEN [pending EXCEPT !.interval = FALSE, !.timer = FALSE,
                                          !.state = "rejected", !.value = ReferenceError]
                     ELSE [pending EXCEPT !.state = "resolved", !.value = JsBool(TRUE)])
       /\ lastOp' = Op("waitForScreenText")
       /\ calls' = 0
       /\ ret' = <<"promise", "screen", ToString(Len(sw) + 1)>>
       /\ UNCHANGED <<script, seq, tty, dst, hthrow, orphans, once, comp, screen, ctlVars, promiseVars,
                      handleVars, histVars>>

\* a tick of setInterval(checkScreen, 100) of sw[i]
pollScreen(i) ==
    /\ i \in DOMAIN sw
    /\ sw[i].interval
    /\ sw' = IF screenMatches(sw[i].patterns)
             THEN [sw EXCEPT ![i] = screenSettle(@, JsBool(TRUE))]
             ELSE sw
    /\ lastOp' = Op("checkScreen")
    /\ calls' = 0
    /\ ret' = Undefined
    /\ UNCHANGED <<script, seq, tty, dst, hthrow, orphans, once, comp, screen, ctlVars, promiseVars,
                   handleVars, histVars>>

\* the setTimeout callback of sw[i]: cleanup(); resolve(false)
screenTimeoutFires(i) ==
    /\ i \in DOMAIN sw
    /\ sw[i].timer
    /\ sw' = [sw EXCEPT ![i] = screenSettle(@, JsBool(FALSE))]
    /\ lastOp' = Op("screenTimeout")
    /\ calls' = 0
    /\ ret' = Undefined
    /\ UNCHANGED <<script, seq, tty, dst, hthrow, orphans, once, comp, screen, ctlVars, promiseVars,
                   handleVars, histVars>>

\* the guest redraws its text screen
screenChanges(rows) ==
    /\ rows # screen
    /\ screen' = rows
    /\ lastOp' = Op("screen")
    /\ calls' = 0
    /\ ret' = Undefined
    /\ UNCHANGED <<script, seq, tty, dst, hthrow, orphans, once, comp, sw, ctlVars, promiseVars,
                   handleVars, histVars>>

\* ----------------------------------------- delegations to the handle
\* Each is this.emulator?.method(): nothing happens while no handle is attached.
sendSerial(data) ==
    /\ emulator # NoHandle => Len(sent) < MaxSent
    /\ sent' = IF emulator # NoHandle THEN Append(sent, <<emulator, data>>) ELSE sent
    /\ calls' = IF emulator # NoHandle THEN 1 ELSE 0
    /\ lastOp' = Op("sendSerial")
    /\ ret' = Undefined
    /\ UNCHANGED <<script, seq, tty, restVars, ctlVars, promiseVars, hreg, hrun, histVars>>

run ==
    /\ hrun' = IF emulator # NoHandle THEN [hrun EXCEPT ![emulator] = TRUE] ELSE hrun
    /\ calls' = IF emulator # NoHandle THEN 1 ELSE 0
    /\ lastOp' = Op("run")
    /\ ret' = Undefined
    /\ UNCHANGED <<script, seq, tty, restVars, ctlVars, promiseVars, hreg, sent, histVars>>

stop ==
    /\ hrun' = IF emulator # NoHandle THEN [hrun EXCEPT ![emulator] = FALSE] ELSE hrun
    /\ calls' = IF emulator # NoHandle THEN 1 ELSE 0
    /\ lastOp' = Op("stop")
    /\ ret' = Undefined
    /\ UNCHANGED <<script, seq, tty, restVars, ctlVars, promiseVars, hreg, sent, histVars>>

restart ==
    /\ hrun' = IF emulator # NoHandle THEN [hrun EXCEPT ![emulator] = TRUE] ELSE hrun
    /\ calls' = IF emulator # NoHandle THEN 1 ELSE 0
    /\ lastOp' = Op("restart")
    /\ ret' = Undefined
    /\ UNCHANGED <<script, seq, tty, restVars, ctlVars, promiseVars, hreg, sent, histVars>>

isRunning ==
    /\ ret' = IF emulator # NoHandle THEN JsBool(hrun[emulator]) ELSE JsBool(FALSE)
    /\ calls' = IF emulator # NoHandle THEN 1 ELSE 0
    /\ lastOp' = Op("isRunning")
    /\ UNCHANGED <<script, seq, tty, restVars, ctlVars, promiseVars, handleVars, histVars>>

getInstructionCounter ==
    /\ \E n \in 0..MaxCounter :
          ret' = IF emulator # NoHandle THEN JsNumber(n) ELSE JsNumber(0)
    /\ calls' = IF emulator # NoHandle THEN 1 ELSE 0
    /\ lastOp' = Op("getInstructionCounter")
    /\ UNCHANGED <<script, seq, tty, restVars, ctlVars, promiseVars, handleVars, histVars>>

getSerialBuffer ==
    /\ ret' = JsString(serialBuffer)
    /\ calls' = 0
    /\ lastOp' = Op("getSerialBuffer")
    /\ UNCHANGED <<script, seq, tty, restVars, ctlVars, promiseVars, handleVars, histVars>>

\* the handle's screen adapter, when it has one, returns the rows of the text screen
TextScreens == {<<>>, <<"login:">>}

getTextScreen ==
    /\ \E hasAdapter \in BOOLEAN, rows \in TextScreens :
          ret' = IF emulator # NoHandle /\ hasAdapter THEN JsArray(rows) ELSE JsArray(<<>>)
    /\ calls' = 0
    /\ lastOp' = Op("getTextScreen")
    /\ UNCHANGED <<script, seq, tty, restVars, ctlVars, promiseVars, handleVars, histVars>>

isAttached == emulator # NoHandle

\* The listener lifecycle: binding, unbinding and the listener registry.
Next ==
    \/ \E h \in Handles : attach(h)
    \/ detach /\ UNCHANGED dst
    \/ \E p \in Listenable : addListener(p[1], p[2])
    \/ \E p \in Listenable : removeListener(p[1], p[2])

Spec == Init /\ [][Next]_vars

\* The serial stream: binding, unbinding, bytes and the serial buffer.
NextSerial ==
    \/ \E h \in Handles : attach(h)
    \/ detach /\ UNCHANGED dst
    \/ Emit
    \/ onSerialOutput
    \/ clearSerialBuffer

SpecSerial == Init /\ [][NextSerial]_vars

\* The delegations to the handle, attached or not.
NextDelegate ==
    \/ \E h \in Handles : attach(h)
    \/ detach /\ UNCHANGED dst
    \/ Emit
    \/ \E data \in SerialData : sendSerial(data)
    \/ run
    \/ stop
    \/ restart
    \/ isRunning
    \/ getInstructionCounter
    \/ getSerialBuffer
    \/ getTextScreen

SpecDelegate == Init /\ [][NextDelegate]_vars

\* The serial pattern waiters, on a controller constructed with handle h1
\* whose guest emits a script.
AAA == <<"A", "A", "A">>
BBB == <<"B", "B", "B">>
WaitScripts == {Str(<<"x", "x", "x">> \o AAA \o <<"y", "y", "y">> \o BBB \o <<"z", "z", "z">>)}
WaitPatterns == {[text |-> AAA, re |-> FALSE], [text |-> BBB, re |-> FALSE]}
WaitTimeouts == {0, 50}

InitAttached ==
    /\ emulator = "h1"
    /\ serialBuffer = <<>>
    /\ serialListeners = {}
    /\ eventListeners = [e \in Events |-> {}]
    /\ serialByteListener = <<"sbl", 1>>
    /\ waiters = <<>>
    /\ heard = <<>>
    /\ hreg = [h \in Handles |-> [r \in Regs |->
                 IF h = "h1" /\ r = <<SerialEvent, <<"sbl", 1>>>> THEN 1 ELSE 0]]
    /\ hrun = [h \in Handles |-> FALSE]
    /\ sent = <<>>
    /\ lastOp = [op |-> "attach", emu |-> NoHandle]
    /\ calls = 1
    /\ ret = Undefined
    /\ nSbl = 1
    /\ nEmit = 0
    /\ emitLog = <<>>
    /\ rebound = FALSE
    /\ dst = NoDestroy
    /\ hthrow = [h \in Handles |-> FALSE]
    /\ orphans = {}
    /\ once = <<>>
    /\ comp = NoComp
    /\ sw = <<>>
    /\ screen = <<>>

InitWait == InitAttached /\ script \in WaitScripts /\ seq = NoSeq /\ tty = FALSE

NextWait ==
    \/ \E p \in WaitPatterns, t \in WaitTimeouts : waitForSerialOutput(p.text, p.re, t)
    \/ \E i \in 1..MaxWaiters : timeoutFires(i)
    \/ FeedByte("h1")

SpecWait == InitWait /\ [][NextWait]_vars

\* The command protocol, one command at a time, on a controller constructed
\* with handle h1 whose guest is a shell.
EchoHello == <<"e", "c", "h", "o", " ", "h", "e", "l", "l", "o">>
Cmd1 == <<"c", "m", "d", "1">>
Cmd2 == <<"c", "m", "d", "2">>
Commands == {EchoHello}
CommandLists == {<<Cmd1, Cmd2>>, <<Cmd2, Cmd1>>, <<>>}

Markers == {DefaultEndMarker, <<"M", "D">>}

\* the caller starts a command when none is in flight and the guest is silent
NoCommandPending ==
    /\ seq.state # "running"
    /\ \A i \in DOMAIN waiters : waiters[i].state # "pending"
    /\ script = <<>>

InitCmd == InitAttached /\ script = <<>> /\ seq = NoSeq /\ tty \in BOOLEAN

NextCmd ==
    \/ \E c \in Commands :
          \E m \in Markers : NoCommandPending /\ executeCommandCall(c, DefaultTimeout, m)
    \/ \E cs \in CommandLists :
          \E m \in Markers : NoCommandPending /\ executeCommands(cs, DefaultTimeout, m)
    \/ continueCommands
    \/ \E i \in 1..MaxWaiters : timeoutFires(i)
    \/ FeedByte("h1")

SpecCmd == InitCmd /\ [][NextCmd]_vars

\* Commands issued without waiting for one another, on a controller
\* constructed with handle h1 whose guest is a shell that does not echo.
InitConc == InitAttached /\ script = <<>> /\ seq = NoSeq /\ tty = FALSE

NextConc ==
    \/ \E c \in {Cmd1, Cmd2} : executeCommandCall(c, DefaultTimeout, DefaultEndMarker)
    \/ \E i \in 1..MaxWaiters : timeoutFires(i)
    \/ FeedByte("h1")

SpecConc == InitConc /\ [][NextConc]_vars

\* destroy() of handle h1, with attach, addListener and serial bytes around it.
NextDestroy ==
    \/ attach("h1")
    \/ addListener("emulator-ready", <<"cb", 1>>)
    \/ Emit
    \/ destroyCall
    \/ \E fulfilled \in BOOLEAN : handleDestroySettles(fulfilled)
    \/ destroyResume

SpecDestroy == Init /\ [][NextDestroy]_vars

\* detach() from handles whose remove_listener may throw.
NextThrow ==
    \/ \E h \in Handles : attach(h)
    \/ addListener("emulator-ready", <<"cb", 1>>)
    \/ Emit
    \/ \E h \in Handles : handleBreaks(h)
    \/ detach /\ UNCHANGED dst

SpecThrow == Init /\ [][NextThrow]_vars

\* Waiters and commands left pending across detach(), on a controller
\* constructed with handle h1 whose guest is a shell that first prints "AAA".
ShortMarker == <<"M", "D">>
PendingTimeouts == {0, 50}
CommandTimeouts == {0, DefaultTimeout}

InitPending == InitAttached /\ script = Str(AAA) /\ seq = NoSeq /\ tty = FALSE

NextPending ==
    \/ \E t \in PendingTimeouts : waitForSerialOutput(AAA, FALSE, t)
    \/ \E t \in CommandTimeouts : executeCommandCall(Cmd1, t, ShortMarker)
    \/ detach /\ UNCHANGED dst
    \/ \E i \in 1..MaxWaiters : timeoutFires(i)
    \/ FeedByte("h1")

SpecPending == InitPending /\ [][NextPending]_vars

\* The screen waiters, on a controller constructed with handle h1 whose
\* guest draws a boot screen and a login prompt.
Login == <<"l", "o", "g", "i", "n", ":">>
Prompt == <<"$">>
Screens == {<<>>, << <<"b", "o", "o", "t">> >>, << <<"b", "o", "o", "t">>, Login >>}
ScreenPatterns == {<<Login>>, <<Prompt, Login>>, <<Prompt>>}
ScreenTimeouts == {0, 50}

InitScreen == InitAttached /\ script = <<>> /\ seq = NoSeq /\ tty = FALSE

NextScreen ==
    \/ \E ps \in ScreenPatterns, t \in ScreenTimeouts : waitForScreenText(ps, t)
    \/ \E i \in 1..MaxWaiters : pollScreen(i)
    \/ \E i \in 1..MaxWaiters : screenTimeoutFires(i)
    \/ \E rows \in Screens : screenChanges(rows)

SpecScreen == InitScreen /\ [][NextScreen]_vars

\* clearSerialBuffer() among pattern waiters, on a controller constructed
\* with handle h1 whose guest emits "xAAAy".
ClearStream == <<"x">> \o AAA \o <<"y">>

InitClear == InitAttached /\ script = Str(ClearStream) /\ seq = NoSeq /\ tty = FALSE

NextClear ==
    \/ \E t \in WaitTimeouts : waitForSerialOutput(AAA, FALSE, t)
    \/ clearSerialBuffer
    \/ \E i \in 1..MaxWaiters : timeoutFires(i)
    \/ FeedByte("h1")

SpecClear == InitClear /\ [][NextClear]_vars

\* --------------------------- waitForReady / waitForStarted / waitForStopped
OnceEvents == {"emulator-ready", "emulator-started", "emulator-stopped"}

\* The common body of the three: resolve at once when no handle is attached,
\* else register a new closure for the event on the attached handle.  A
\* closure is [event, h: the handle add_listener was called on, on: still in
\* that handle's bus, resolves: calls of resolve() so far].
oneShot(name, event) ==
    /\ Len(once) < MaxOnce
    /\ once' = Append(once,
                  IF emulator = NoHandle
                  THEN [event |-> event, h |-> NoHandle, on |-> FALSE, resolves |-> 1]
                  ELSE [event |-> event, h |-> emulator, on |-> TRUE, resolves |-> 0])
    /\ calls' = IF emulator = NoHandle THEN 0 ELSE 1
    /\ lastOp' = Op(name)
    /\ ret' = <<"promise", ToString(Len(once) + 1)>>
    /\ UNCHANGED <<script, seq, tty, dst, hthrow, orphans, sw, screen, comp, ctlVars,
                   promiseVars, handleVars, histVars>>

waitForReady == oneShot("waitForReady", "emulator-ready")
waitForStarted == oneShot("waitForStarted", "emulator-started")
waitForStopped == oneShot("waitForStopped", "emulator-stopped")

\* The handle h emits one of the three events: its bus calls every closure
\* registered on it for the event.  The closure unregisters itself from
\* this.emulator, whatever handle that is by now, and calls resolve().
fire(h, event) ==
    LET called == {i \in DOMAIN once : once[i].on /\ once[i].h = h /\ once[i].event = event}
    IN /\ called # {}
       /\ \A i \in called : once[i].resolves < MaxFire
       /\ once' = [i \in DOMAIN once |->
                     IF i \in called
                     THEN [once[i] EXCEPT !.on = (emulator # h),
                                          !.resolves = @ + 1]
                     ELSE once[i]]
       /\ calls' = IF emulator = NoHandle THEN 0 ELSE Cardinality(called)
       /\ lastOp' = [op |-> "fire", emu |-> h]
       /\ ret' = Undefined
       /\ UNCHANGED <<script, seq, tty, dst, hthrow, orphans, sw, screen, comp, ctlVars,
                      promiseVars, handleVars, histVars>>

\* One-shot waits among attach and detach.
NextOnce ==
    \/ \E h \in Handles : attach(h)
    \/ detach /\ UNCHANGED dst
    \/ waitForReady
    \/ waitForStarted
    \/ waitForStopped
    \/ \E h \in Handles, e \in OnceEvents : fire(h, e)

SpecOnce == Init /\ [][NextOnce]_vars

\* destroy() with attach to either handle around and during its await.
NextSwap ==
    \/ \E h \in Handles : attach(h)
    \/ addListener("emulator-ready", <<"cb", 1>>)
    \/ Emit
    \/ destroyCall
    \/ handleDestroySettles(TRUE)
    \/ destroyResume

SpecSwap == Init /\ [][NextSwap]_vars

\* ------------------------------------------------ V86Emulator components
\* everything but the component
controllerVars == <<ctlVars, promiseVars, handleVars, obsVars, histVars, script, seq, tty,
                    dst, hthrow, orphans, sw, screen, once>>

\* the events of the addTrackedListener calls, in the order of the calls
TrackedEvents == <<"emulator-ready", "emulator-started", "emulator-stopped", SerialEvent,
                   "screen-put-char", "screen-set-size", "mouse-enable",
                   "download-progress", "download-error">>

\* the events of the add_listener calls of the script-loading component
ScriptEvents == <<"emulator-ready", "emulator-started", "emulator-stopped", SerialEvent,
                  "screen-put-char">>

\* the events the emulators emit
FiredEvents == {"emulator-ready", SerialEvent}

\* the events of the first k calls
Registered(events, k) == {events[j] : j \in 1..k}

\* initializeEmulator up to its await.  The effect runs with the div rendered,
\* so screenContainerRef.current is set.
initializeEmulator(c) ==
    IF c.isInitialized THEN c
    ELSE [c EXCEPT !.isInitialized = TRUE, !.loads = @ + 1]

\* --- the component of v86-wrapper
\* the function the effect returns
cleanupWrapper(c) ==
    LET e == c.emulatorRef
        off == [c EXCEPT !.isMounted = FALSE]
    IN IF e = 0 THEN off
       ELSE [off EXCEPT !.insts[e].regs = @ \ c.listeners,
                        !.insts[e].destroyed = TRUE,
                        !.listeners = {},
                        !.emulatorRef = 0,
                        !.isInitialized = FALSE]

\* initializeEmulator after its await with the V86 class loaded: new V86(),
\* then, if still mounted, the addTrackedListener calls, of which the first k
\* return and the next one, if any, throws into the catch block
initializeEmulator_noMountCheck(c, k) ==
    LET id == Len(c.insts) + 1
        evs == Registered(TrackedEvents, k)
    IN [c EXCEPT !.loads = @ - 1,
                 !.emulatorRef = id,
                 !.listeners = evs,
                 !.isInitialized = IF k < Len(TrackedEvents) THEN FALSE ELSE @,
                 !.insts = Append(@, [destroyed |-> FALSE, regs |-> evs, born |-> c.phase])]

initializeEmulatorResumes(c, k) ==
    LET id == Len(c.insts) + 1
        evs == Registered(TrackedEvents, k)
    IN IF ~c.isMounted
       THEN [c EXCEPT !.loads = @ - 1,
                      !.insts = Append(@, [destroyed |-> TRUE, regs |-> {}, born |-> c.phase])]
       ELSE [c EXCEPT !.loads = @ - 1,
                      !.emulatorRef = id,
                      !.listeners = evs,
                      !.isInitialized = IF k < Len(TrackedEvents) THEN FALSE ELSE @,
                      !.insts = Append(@, [destroyed |-> FALSE, regs |-> evs, born |-> c.phase])]

\* the catch block, entered from the await or from new V86()
initializeEmulatorFails(c) == [c EXCEPT !.loads = @ - 1, !.isInitialized = FALSE]

\* React runs the effect for the first time
mountWrapper ==
    /\ comp.phase = "rendered"
    /\ comp' = initializeEmulator([comp EXCEPT !.isMounted = TRUE, !.phase = "mounted"])
    /\ UNCHANGED controllerVars

\* React runs the cleanup and the effect again, in one commit: Strict Mode's
\* remount, or initializeEmulator changed with a dependency
rerunWrapper ==
    /\ comp.phase = "mounted"
    /\ cleanupWrapper(comp).isInitialized \/ comp.loads < MaxLoads
    /\ comp' = initializeEmulator([cleanupWrapper(comp) EXCEPT !.isMounted = TRUE])
    /\ UNCHANGED controllerVars

\* React unmounts the component: the cleanup alone
unmountWrapper ==
    /\ comp.phase = "mounted"
    /\ comp' = [cleanupWrapper(comp) EXCEPT !.phase = "unmounted"]
    /\ UNCHANGED controllerVars

\* the promise of loadV86() settles and initializeEmulator goes on
loadV86Settles(ok, k) ==
    /\ comp.loads > 0
    /\ IF ok
       THEN /\ Len(comp.insts) < MaxInst
            /\ comp' = initializeEmulatorResumes(comp, k)
       ELSE /\ k = 0
            /\ comp' = initializeEmulatorFails(comp)
    /\ UNCHANGED controllerVars

\* emulator i emits event: its bus calls the tracked listener, which passes
\* the event on to the callback prop if isMountedRef.current
listenerWrapper(i, event) ==
    /\ i \in DOMAIN comp.insts
    /\ event \in comp.insts[i].regs
    /\ Len(comp.props) < MaxProps
    /\ comp' = IF comp.isMounted THEN [comp EXCEPT !.props = Append(@, event)] ELSE comp
    /\ UNCHANGED controllerVars

NextWrapper ==
    \/ mountWrapper
    \/ rerunWrapper
    \/ unmountWrapper
    \/ \E ok \in BOOLEAN, k \in 0..Len(TrackedEvents) : loadV86Settles(ok, k)
    \/ \E i \in 1..MaxInst, event \in FiredEvents : listenerWrapper(i, event)

SpecWrapper == Init /\ [][NextWrapper]_vars

\* --- the component of components/v86, which loads the v86 script
\* the function the effect returns
cleanupScript(c) ==
    LET e == c.emulatorRef
    IN IF e = 0 THEN c
       ELSE [c EXCEPT !.insts[e].destroyed = TRUE,
                      !.emulatorRef = 0,
                      !.isInitialized = FALSE]

\* initializeEmulator after its await with window.V86 there: new V86(), then
\* the add_listener calls, of which the first k return and the next one, if
\* any, throws into the catch block
initializeEmulatorScript(c, k) ==
    [c EXCEPT !.loads = @ - 1,
              !.emulatorRef = Len(c.insts) + 1,
              !.isInitialized = IF k < Len(ScriptEvents) THEN FALSE ELSE @,
              !.insts = Append(@, [destroyed |-> FALSE, regs |-> Registered(ScriptEvents, k),
                                   born |-> c.phase])]

mountScript ==
    /\ comp.phase = "rendered"
    /\ comp' = initializeEmulator([comp EXCEPT !.phase = "mounted"])
    /\ UNCHANGED controllerVars

rerunScript ==
    /\ comp.phase = "mounted"
    /\ cleanupScript(comp).isInitialized \/ comp.loads < MaxLoads
    /\ comp' = initializeEmulator(cleanupScript(comp))
    /\ UNCHANGED controllerVars

unmountScript ==
    /\ comp.phase = "mounted"
    /\ comp' = [cleanupScript(comp) EXCEPT !.phase = "unmounted"]
    /\ UNCHANGED controllerVars

\* the promise of loadV86Script() settles and initializeEmulator goes on
loadV86ScriptSettles(ok, k) ==
    /\ comp.loads > 0
    /\ IF ok
       THEN /\ Len(comp.insts) < MaxInst
            /\ comp' = initializeEmulatorScript(comp, k)
       ELSE /\ k = 0
            /\ comp' = initializeEmulatorFails(comp)
    /\ UNCHANGED controllerVars

\* emulator i emits event: its bus calls the listener, which calls the prop
listenerScript(i, event) ==
    /\ i \in DOMAIN comp.insts
    /\ event \in comp.insts[i].regs
    /\ Len(comp.props) < MaxProps
    /\ comp' = [comp EXCEPT !.props = Append(@, event)]
    /\ UNCHANGED controllerVars

NextScript ==
    \/ mountScript
    \/ rerunScript
    \/ unmountScript
    \/ \E ok \in BOOLEAN, k \in 0..Len(ScriptEvents) : loadV86ScriptSettles(ok, k)
    \/ \E i \in 1..MaxInst, event \in FiredEvents : listenerScript(i, event)

SpecScript == Init /\ [][NextScript]_vars

\* ----------------------------------------------------------------------
\* Claims about the lifecycle
\* ----------------------------------------------------------------------
ChrAll(bytes) == [i \in 1..Len(bytes) |-> fromCharCode(bytes[i])]

\* C1 (listener symmetry): when the controller was only ever bound to one
\* handle at a time, then right after detach() from a handle h nothing the
\* controller registered on h (addListener callbacks, with their duplicates,
\* and its own serial0-output-byte closure) is still registered on h.
C1_ListenerSymmetry ==
    (lastOp.op = "detach" /\ lastOp.emu # NoHandle /\ ~rebound)
        => \A r \in Regs : hreg[lastOp.emu][r] = 0

\* detach() has just removed the serial closure and at least two tracked pairs
C1_Witness ==
    /\ lastOp = [op |-> "detach", emu |-> "h1"]
    /\ ~rebound
    /\ calls >= 3
    /\ \A r \in Regs : hreg["h1"][r] = 0

\* C2 (buffer monotonicity): when the controller was only ever bound to one
\* handle at a time, the serial buffer is the characters of the bytes the
\* attached handle emitted since the last detach() or clearSerialBuffer(),
\* each once and in emission order.
C2_BufferIsEmitted ==
    ~rebound => serialBuffer = ChrAll(emitLog)

C2_Witness ==
    /\ ~rebound
    /\ emulator # NoHandle
    /\ Len(emitLog) >= 2
    /\ emitLog[1] # emitLog[2]
    /\ serialBuffer = ChrAll(emitLog)

\* C7 (detach idempotence): right after a detach() made while no handle was
\* attached (never attached, or detached just before), no handle method was
\* called, isAttached() is false and the serial buffer is empty; and every
\* detach() ends unattached with an empty serial buffer.
C7_DetachIdempotent ==
    lastOp.op = "detach" =>
        /\ ~isAttached
        /\ serialBuffer = <<>>
        /\ eventListeners = [e \in Events |-> {}]
        /\ lastOp.emu = NoHandle => calls = 0

\* a second detach() in a row, after an attach
C7_Witness ==
    /\ lastOp = [op |-> "detach", emu |-> NoHandle]
    /\ nSbl >= 1
    /\ calls = 0
    /\ ~isAttached

\* C8 (no-op without attachment): an operation of the list called while no
\* handle is attached calls no handle method, changes nothing of the
\* controller and returns its default.
DelegateDefault(op) ==
    CASE op = "isRunning" -> JsBool(FALSE)
      [] op = "getInstructionCounter" -> JsNumber(0)
      [] op = "getSerialBuffer" -> JsString(<<>>)
      [] op = "getTextScreen" -> JsArray(<<>>)
      [] OTHER -> Undefined

Delegations == {"sendSerial", "run", "restart", "stop", "isRunning",
                "getInstructionCounter", "getSerialBuffer", "getTextScreen"}

C8_UnattachedDefaults ==
    (lastOp.op \in Delegations /\ lastOp.emu = NoHandle)
        => /\ ret = DelegateDefault(lastOp.op)
           /\ calls = 0

\* C9 (rebinding without leak): once attach() was called while another handle
\* was attached, no listener of the controller is registered on a handle
\* other than the attached one (so that handle's bytes reach nothing).
C9_RebindNoLeak ==
    rebound => \A h \in Handles \ {emulator} : \A r \in Regs : hreg[h][r] = 0

\* C10 (ListenerRegistry invariant): every (event, callback) of eventListeners
\* is registered on the attached handle; the registry is empty when no handle
\* is attached.
C10_RegistryInv ==
    \A p \in RegistryPairs(eventListeners) :
        emulator # NoHandle /\ hreg[emulator][p] > 0

\* ----------------------------------------------------------------------
\* Claims about the serial pattern waiters
\* ----------------------------------------------------------------------
xxxAAA == <<"x", "x", "x">> \o AAA
xxxAAAyyyBBB == xxxAAA \o <<"y", "y", "y">> \o BBB

Settled(w) == w.state # "pending"

\* what each waiter is, whatever the other waiters do: it listens exactly
\* while pending, has then seen every byte and no match; a literal waiter
\* called on the empty buffer resolves with the stream up to its pattern
C3_EachOnItsOwn ==
    \A i \in DOMAIN waiters :
        LET w == waiters[i] IN
        /\ (i \in serialListeners) = (w.state = "pending")
        /\ w.state = "pending" =>
              /\ w.buffer = serialBuffer
              /\ ~includes(w.buffer, w.expected)
              /\ w.timer = (w.timeout > 0)
        /\ (w.state = "resolved" /\ w.fresh /\ ~w.isRegExp) =>
              w.value = (IF w.expected = AAA THEN xxxAAA ELSE xxxAAAyyyBBB)
        /\ (w.state = "resolved" /\ w.isRegExp) => w.value = w.expected
        /\ w.state = "rejected" => w.timeout > 0

\* a waiter loses its listener or its timer only in the step that settles it
C3_OnlyItsOwn ==
    \A j \in DOMAIN waiters :
        (\/ (j \in serialListeners /\ j \notin serialListeners')
         \/ (waiters[j].timer /\ ~waiters'[j].timer))
            => (~Settled(waiters[j]) /\ Settled(waiters'[j]))

\* C3 (waiter independence): two waitForSerialOutput("AAA") / ("BBB") called on
\* the empty buffer resolve, as "xxxAAAyyyBBBzzz" is fed, with "xxxAAA" and
\* "xxxAAAyyyBBB"; and the timeout or resolution of a waiter removes only its
\* own listener and timer, every other waiter settling as if it were alone.
C3_WaiterIndependence == []C3_EachOnItsOwn /\ [][C3_OnlyItsOwn]_vars

\* both resolved, the script fed to its end
C3_Witness ==
    /\ Len(waiters) = 2
    /\ script = <<>>
    /\ waiters[1].expected = AAA /\ waiters[1].fresh /\ waiters[1].state = "resolved"
    /\ waiters[1].value = xxxAAA
    /\ waiters[2].expected = BBB /\ waiters[2].fresh /\ waiters[2].state = "resolved"
    /\ waiters[2].value = xxxAAAyyyBBB

\* a rejected waiter: timed out before its pattern appeared, no longer listening
C4_Rejected ==
    \A i \in DOMAIN waiters :
        waiters[i].state = "rejected" =>
            /\ waiters[i].timeout > 0
            /\ waiters[i].value = TimeoutError(waiters[i].expected)
            /\ ~includes(waiters[i].buffer, waiters[i].expected)
            /\ i \notin serialListeners
            /\ ~waiters[i].timer

\* once rejected, the closure never changes again
C4_StaysRejected ==
    \A i \in DOMAIN waiters :
        waiters[i].state = "rejected" => waiters'[i] = waiters[i]

\* C4 (timeout firing): a waiter with timeout_msec > 0 whose pattern has not
\* appeared when its timer fires is rejected with the timeout error naming
\* the pattern and its listener leaves serialListeners; matching bytes that
\* arrive later change nothing of it.
C4_TimeoutFiring == []C4_Rejected /\ [][C4_StaysRejected]_vars

\* rejected, and its pattern arrived afterwards
C4_Witness ==
    \E i \in DOMAIN waiters :
        /\ waiters[i].state = "rejected"
        /\ ~includes(waiters[i].buffer, waiters[i].expected)
        /\ includes(serialBuffer, waiters[i].expected)

\* ----------------------------------------------------------------------
\* Claims about commands, under SpecCmd
\* the line executeCommand is to write for a command and an end marker
CommandLine(command, endMarker) ==
    command \o <<";", " ", "e", "c", "h", "o", " ">> \o endMarker \o <<"\n">>

\* the text with the first "echo <endMarker>" and the first endMarker taken
\* out, trimmed
Stripped(text, endMarker) ==
    trim(replaceFirst(replaceFirst(text, <<"e", "c", "h", "o", " ">> \o endMarker),
                      endMarker))

\* C5 (command round-trip): every executeCommand(cmd) has written exactly one
\* line to serial input, "<cmd>; echo <endMarker>\n"; a resolved command's
\* value is the text it accumulated with the first "echo <endMarker>" and the
\* first endMarker removed, trimmed; and "echo hello" answered by a guest that
\* emits "hello\n<endMarker>\n" byte by byte resolves to "hello".
C5_CommandRoundTrip ==
    /\ Len(sent) = Len(waiters)
    /\ \A i \in DOMAIN waiters :
         LET w == waiters[i]
         IN /\ w.kind = "cmd"
            /\ sent[i] = <<"h1", CommandLine(w.command, w.expected)>>
            /\ w.state = "resolved" =>
                 /\ includes(w.buffer, w.expected)
                 /\ w.value = Stripped(w.buffer, w.expected)
            /\ (w.state = "resolved" /\ ~tty /\ w.command = EchoHello) =>
                 /\ w.buffer = <<"h", "e", "l", "l", "o", "\n">> \o w.expected
                 /\ w.value = <<"h", "e", "l", "l", "o">>

\* "echo hello" with the default end marker has resolved to "hello"
C5_Witness ==
    /\ ~tty
    /\ \E i \in DOMAIN waiters :
         /\ waiters[i].command = EchoHello
         /\ waiters[i].expected = DefaultEndMarker
         /\ waiters[i].state = "resolved"
         /\ waiters[i].value = <<"h", "e", "l", "l", "o">>
         /\ script = <<>>

\* C6 (sequential command ordering): executeCommands sends its commands in
\* the order given, each one only once the command before it has seen its end
\* marker and resolved; the results are the values of the commands' promises
\* in that order, and against a guest that answers each command in turn the
\* resolved array is the commands' outputs in the order of the commands.
C6_SequentialOrdering ==
    LET n == Len(seq.ids)
    IN seq.state # "idle" =>
         /\ n <= Len(seq.cmds)
         /\ \A k \in 1..n :
              /\ seq.ids[k] \in DOMAIN waiters
              /\ waiters[seq.ids[k]].command = seq.cmds[k]
              /\ sent[seq.ids[k]][2] =
                   CommandLine(seq.cmds[k], waiters[seq.ids[k]].expected)
              /\ k < n => /\ seq.ids[k] < seq.ids[k + 1]
                          /\ waiters[seq.ids[k]].state = "resolved"
                          /\ includes(waiters[seq.ids[k]].buffer,
                                      waiters[seq.ids[k]].expected)
         /\ Len(seq.results) \in {n - 1, n}
         /\ \A k \in 1..Len(seq.results) :
              /\ waiters[seq.ids[k]].state = "resolved"
              /\ seq.results[k] = waiters[seq.ids[k]].value
              /\ ~tty => seq.results[k] = trim(ShellOutput(seq.cmds[k]))
         /\ seq.state = "resolved" => Len(seq.results) = Len(seq.cmds)
         /\ seq.state = "running" => /\ n >= 1
                                     /\ Len(seq.results) = n - 1

\* executeCommands(["cmd2", "cmd1"]) has resolved with ["2", "1"]
C6_Witness ==
    /\ ~tty
    /\ seq.state = "resolved"
    /\ seq.cmds = <<Cmd2, Cmd1>>
    /\ seq.results = << <<"2">>, <<"1">> >>
    /\ Len(sent) = 2

\* ----------------------------------------------------------------------
\* Further claims about the lifecycle, under Spec
\* an addListener call made while no handle is attached changes neither the
\* registry nor any handle
C11_UnattachedStep ==
    (emulator = NoHandle /\ lastOp'.op = "addListener") =>
        /\ eventListeners' = eventListeners
        /\ hreg' = hreg

\* C11 (unattached addListener): addListener(event, cb) called while no handle
\* is attached records nothing: the listener registry and the handles'
\* registrations are as before the call.
C11_UnattachedAddListenerNoop == [][C11_UnattachedStep]_vars

\* ----------------------------------------------------------------------
\* Claims about concurrent commands, under SpecConc
\* C12 (concurrent commands): with any number of executeCommand calls
\* outstanding at once on the default end marker and none timed out, every
\* resolved command returns the output of its own command; the end marker
\* printed for an earlier command does not resolve a later one.
C12_OwnOutput ==
    (\A j \in DOMAIN waiters : waiters[j].state # "rejected") =>
        \A i \in DOMAIN waiters :
            waiters[i].state = "resolved" =>
                waiters[i].value = trim(ShellOutput(waiters[i].command))

\* ----------------------------------------------------------------------
\* Claims about destroy, under SpecDestroy
\* the step in which destroy() resolves: the handle had fulfilled, and the
\* controller ends detached with an empty registry and serial buffer
C13_ResolveStep ==
    (dst.state = "awaiting" /\ dst'.state = "resolved") =>
        /\ dst.ack = "fulfilled"
        /\ emulator' = NoHandle
        /\ eventListeners' = [e \in Events |-> {}]
        /\ serialBuffer' = <<>>

\* the controller leaves its handle only in destroy()'s step after the
\* handle fulfilled
C13_DetachStep ==
    (emulator # NoHandle /\ emulator' = NoHandle) =>
        /\ dst.state = "awaiting"
        /\ dst.ack = "fulfilled"
        /\ dst'.state = "resolved"

\* destroy() on an unattached controller calls nothing on any handle
C13_UnattachedStep ==
    (emulator = NoHandle /\ dst'.state # dst.state) =>
        /\ calls' = 0
        /\ handleVars' = handleVars
        /\ dst'.state \in {"awaiting", "resolved"}
        /\ dst'.h = NoHandle

\* C13 (destroy then detach): destroy() calls the handle's destroy and runs
\* detach() only after that call fulfilled; when destroy() resolves the
\* controller is unattached with an empty registry and serial buffer; it is
\* never detached while the handle has not acknowledged, nor when the handle
\* rejected; destroy() on an unattached controller resolves without a handle
\* operation.
C13_DestroyThenDetach ==
    /\ [](dst.ack = "pending" => emulator # NoHandle)
    /\ [](dst.state = "rejected" => dst.ack = "rejected" /\ emulator # NoHandle)
    /\ [][C13_ResolveStep /\ C13_DetachStep /\ C13_UnattachedStep]_vars

\* destroy() has resolved on h1 after bytes and a listener: detach removed
\* the serial closure and the listener
C13_Witness ==
    /\ dst.state = "resolved"
    /\ dst.h = "h1"
    /\ lastOp = [op |-> "detach", emu |-> "h1"]
    /\ calls = 2
    /\ nEmit > 0
    /\ emulator = NoHandle

\* ----------------------------------------------------------------------
\* Claims about detach from a throwing handle, under SpecThrow
\* C14 (detach never throws): every detach() call returns normally and leaves
\* the controller unattached with an empty registry and an empty serial
\* buffer, also when the handle's remove_listener throws.
C14_DetachCompletes ==
    lastOp.op = "detach" =>
        /\ ret # Thrown
        /\ ~isAttached
        /\ RegistryPairs(eventListeners) = {}
        /\ serialBuffer = <<>>

\* ----------------------------------------------------------------------
\* Further claims about the serial stream, under SpecSerial
\* C15 (attach empties the buffer): right after any attach call, the first,
\* one of the same handle again or one of another handle, the serial buffer
\* is empty.
C15_AttachEmptiesBuffer == lastOp.op = "attach" => serialBuffer = <<>>

\* a controller that was bound to one handle at a time has exactly one serial
\* closure on its handle, the one it holds
C16_OneClosure ==
    (emulator # NoHandle /\ ~rebound) =>
        /\ SblCount(emulator) = 1
        /\ hreg[emulator][<<SerialEvent, serialByteListener>>] = 1

\* and a byte of that handle is appended once and heard once
C16_OnceStep ==
    (emulator # NoHandle /\ ~rebound /\ nEmit' = nEmit + 1 /\ lastOp'.emu = emulator) =>
        /\ emitLog' # <<>>
        /\ serialBuffer' = Append(serialBuffer, fromCharCode(emitLog'[Len(emitLog')]))
        /\ heard' = IF 0 \in serialListeners
                    THEN Append(heard, fromCharCode(emitLog'[Len(emitLog')]))
                    ELSE heard

\* C16 (attach idempotence): after attach(h) was called one or more times in
\* a row with the same h, exactly one serial0-output-byte closure of the
\* controller is registered on h, and each byte h emits is appended to the
\* serial buffer once and dispatched to each serial listener once.
C16_AttachIdempotent == []C16_OneClosure /\ [][C16_OnceStep]_vars

\* three attaches in a row, then a byte that was heard once
C16_Witness ==
    /\ nSbl = 3
    /\ ~rebound
    /\ emulator # NoHandle
    /\ SblCount(emulator) = 1
    /\ Len(serialBuffer) = 1
    /\ Len(heard) = 1
    /\ lastOp = [op |-> "emit", emu |-> emulator]

\* ----------------------------------------------------------------------
\* Further claims about the serial pattern waiters, under SpecWait
\* the call: on a buffer that holds the pattern the promise is resolved
\* with the buffer at once, timer cleared and no listener left; otherwise it
\* is pending on the seeded text, listening, its timer set when timeout > 0
C17_CallStep ==
    Len(waiters') = Len(waiters) + 1 =>
        LET i == Len(waiters')
            w == waiters'[i]
        IN /\ serialBuffer' = serialBuffer
           /\ IF includes(serialBuffer, w.expected)
              THEN /\ w.state = "resolved"
                   /\ w.value = serialBuffer
                   /\ ~w.timer
                   /\ i \notin serialListeners'
              ELSE /\ w.state = "pending"
                   /\ w.buffer = serialBuffer
                   /\ w.timer = (w.timeout > 0)
                   /\ i \in serialListeners'

\* afterwards: a pending waiter's text is the whole stream and lacks the
\* pattern; a resolved one's value is the stream up to the byte at which the
\* seeded text and the later bytes first held the pattern, or the seed itself
C17_SeedThenBytes ==
    \A i \in DOMAIN waiters :
        LET w == waiters[i]
        IN /\ w.state = "pending" =>
                /\ w.buffer = serialBuffer
                /\ ~includes(serialBuffer, w.expected)
           /\ w.state = "resolved" =>
                /\ Len(w.value) <= Len(serialBuffer)
                /\ w.value = SubSeq(serialBuffer, 1, Len(w.value))
                /\ includes(w.value, w.expected)
                /\ ~w.fresh \/ ~includes(SubSeq(w.value, 1, Len(w.value) - 1), w.expected)

\* C17 (seeded wait): waitForSerialOutput starts from the current serial
\* buffer: when the buffer already holds the pattern the promise resolves in
\* the call, without a further byte, its timer cancelled and no listener of
\* it among the serial listeners; otherwise the match is evaluated over the
\* seeded text followed by every later byte.
C17_SeededWait == []C17_SeedThenBytes /\ [][C17_CallStep]_vars

\* resolved in the call on a buffer that held more than the pattern asked for later
C17_Witness ==
    \E i \in DOMAIN waiters :
        /\ ~waiters[i].fresh
        /\ waiters[i].state = "resolved"
        /\ waiters[i].expected = AAA
        /\ waiters[i].value = xxxAAAyyyBBB
        /\ lastOp.op = "waitForSerialOutput"
        /\ Len(waiters) = i

\* ----------------------------------------------------------------------
\* Claims about promises pending across detach, under SpecPending
\* detach() itself settles nothing
C18_DetachStep == lastOp'.op = "detach" => waiters' = waiters

\* a promise that was pending when detach() ran is never resolved, is
\* rejected only by its own timeout > 0 with its own timeout error, and with
\* timeout 0 stays pending
C18_Orphans ==
    \A i \in orphans :
        LET w == waiters[i]
        IN /\ w.state # "resolved"
           /\ w.state = "rejected" => (w.timeout > 0 /\ w.value = TimerError(w))
           /\ w.timeout = 0 => w.state = "pending"

\* C18 (detach leaves waiters pending): a waitForSerialOutput or
\* executeCommand pending when detach() is called is neither resolved nor
\* rejected by detach(); with a timeout > 0 it is later rejected with its own
\* timeout error, with timeout 0 it stays pending forever.
C18_DetachLeavesPending == []C18_Orphans /\ [][C18_DetachStep]_vars

\* C20 (timeout 0 for commands): executeCommand(cmd, {timeout: 0}) installs
\* no deadline and is never rejected; it is pending until it resolves on the
\* end marker.
C20_NoDeadline ==
    \A i \in DOMAIN waiters :
        (waiters[i].kind = "cmd" /\ waiters[i].timeout = 0) =>
            /\ ~waiters[i].timer
            /\ waiters[i].state # "rejected"

\* ----------------------------------------------------------------------
\* Claims about the screen waiters, under SpecScreen
\* C19 (screen wait is a boolean signal): a waitForScreenText promise is
\* never rejected; settled, its value is true or false and its polling
\* interval and its timeout timer are both cancelled; this includes the call
\* made on a screen that matches already.
C19_BooleanSignal ==
    \A i \in DOMAIN sw :
        /\ sw[i].state # "rejected"
        /\ sw[i].state = "resolved" =>
             /\ sw[i].value \in {JsBool(TRUE), JsBool(FALSE)}
             /\ ~sw[i].interval
             /\ ~sw[i].timer

\* ----------------------------------------------------------------------
\* Further claims about commands, under SpecCmd
\* a rejected command: rejected by its timer with the error naming its timeout
\* and its command, no longer listening, its line written once
C21_Rejected ==
    /\ Len(sent) = Len(waiters)
    /\ \A i \in DOMAIN waiters :
         waiters[i].state = "rejected" =>
            /\ waiters[i].value =
                 <<"Command timeout after ", ToString(waiters[i].timeout), "ms: ">>
                    \o waiters[i].command
            /\ i \notin serialListeners
            /\ ~waiters[i].timer
            /\ sent[i][2] = CommandLine(waiters[i].command, waiters[i].expected)

\* once rejected, a command never changes again
C21_StaysRejected ==
    \A i \in DOMAIN waiters :
        waiters[i].state = "rejected" => waiters'[i] = waiters[i]

\* C21 (command timeout): an executeCommand whose end marker has not been
\* received when its timer fires is rejected with an error naming the
\* command and the timeout, its listener leaves the serial listeners so that
\* an end marker arriving later resolves nothing, and its command line was
\* written to serial input exactly once.
C21_CommandTimeout == []C21_Rejected /\ [][C21_StaysRejected]_vars

\* a command timed out, and its end marker arrived afterwards
C21_Witness ==
    /\ Len(waiters) = 1
    /\ Len(sent) = 1
    /\ waiters[1].state = "rejected"
    /\ includes(serialBuffer, waiters[1].expected)
    /\ script = <<>>

\* a command of the sequence that rejected is the last one the sequence sent,
\* and the sequence is then rejected with that command's error, or about to be
C22_Rejection ==
    /\ \A k \in 1..Len(seq.ids) :
         waiters[seq.ids[k]].state = "rejected" =>
            /\ k = Len(seq.ids)
            /\ seq.state \in {"running", "rejected"}
            /\ Len(seq.results) = k - 1
    /\ seq.state = "rejected" =>
         /\ seq.ids # <<>>
         /\ waiters[seq.ids[Len(seq.ids)]].state = "rejected"
         /\ seq.error = waiters[seq.ids[Len(seq.ids)]].value
    /\ seq.state = "resolved" =>
         \A k \in 1..Len(seq.ids) : waiters[seq.ids[k]].state = "resolved"

\* a rejected sequence sends nothing more and stays rejected
C22_StaysRejected == seq.state = "rejected" => seq' = seq

\* C22 (executeCommands fails fast): when the i-th executeCommand rejects,
\* executeCommands rejects with that same error, it sends none of the
\* commands after the i-th, and it does not resolve with a partial array.
C22_FailFast == []C22_Rejection /\ [][C22_StaysRejected]_vars

\* executeCommands of two commands rejected on the first; the guest has gone silent
C22_Witness ==
    /\ seq.state = "rejected"
    /\ Len(seq.cmds) = 2
    /\ Len(seq.ids) = 1
    /\ Len(sent) = 1
    /\ script = <<>>
    /\ seq.error = CommandTimeoutError(seq.cmds[1], DefaultTimeout)

\* ----------------------------------------------------------------------
\* Claims about clearSerialBuffer among waiters, under SpecClear
\* a pending waiter has its listener and a text without the pattern; a
\* resolved one has the text it held when the pattern was completed
C23_KeepsOwnText ==
    \A i \in DOMAIN waiters :
        LET w == waiters[i]
        IN /\ w.state = "pending" => i \in serialListeners /\ ~includes(w.buffer, w.expected)
           /\ w.state = "resolved" => includes(w.value, w.expected)

\* every byte of the guest is appended to the text of every pending waiter,
\* whatever the serial buffer holds by then
C23_ByteStep ==
    lastOp'.op = "emit" /\ nEmit' = nEmit + 1 =>
        \A i \in DOMAIN waiters :
            waiters[i].state = "pending" =>
                LET text == Append(waiters[i].buffer, ClearStream[nEmit'])
                IN IF includes(text, waiters[i].expected)
                   THEN waiters'[i].state = "resolved" /\ waiters'[i].value = text
                   ELSE waiters'[i].state = "pending" /\ waiters'[i].buffer = text

\* the clear itself touches no waiter
C23_ClearStep ==
    lastOp'.op = "clearSerialBuffer" =>
        /\ waiters' = waiters
        /\ serialListeners' = serialListeners
        /\ serialBuffer' = <<>>

\* C23 (clear leaves waiters alone): clearSerialBuffer() empties the serial
\* buffer only; a waitForSerialOutput registered before it keeps its own text
\* and its listener, so a literal pattern whose characters arrive partly
\* before and partly after the clear still resolves the waiter, with text
\* that includes the characters received before the clear.
C23_ClearKeepsWaiters ==
    []C23_KeepsOwnText /\ [][C23_ClearStep]_vars /\ [][C23_ByteStep]_vars

\* registered first, cleared after "xAA", resolved with "xAAA" on the next byte
C23_Witness ==
    /\ Len(waiters) >= 1
    /\ waiters[1].state = "resolved"
    /\ waiters[1].value = <<"x">> \o AAA
    /\ serialBuffer = <<"A">>

\* a waiter called with timeout_msec 0 has no timer, is never rejected, and is
\* pending with its listener exactly while its text lacks the pattern
C24_NoTimer ==
    \A i \in DOMAIN waiters :
        LET w == waiters[i]
        IN w.kind = "wait" /\ w.timeout = 0 =>
             /\ ~w.timer
             /\ w.state # "rejected"
             /\ w.state = "pending" =>
                  i \in serialListeners /\ ~includes(w.buffer, w.expected)
             /\ w.state = "resolved" => includes(w.value, w.expected)

\* such a waiter leaves the pending state only on a byte from the guest, and
\* every byte that arrives while it is pending lands in its text
C24_OnlyBytesSettle ==
    \A i \in DOMAIN waiters :
        waiters[i].timeout = 0 /\ waiters[i].state = "pending" =>
            \/ waiters'[i] = waiters[i]
            \/ /\ lastOp'.op = "emit"
               /\ nEmit' = nEmit + 1
               /\ \/ /\ waiters'[i].state = "pending"
                     /\ waiters'[i].buffer = Append(waiters[i].buffer, ClearStream[nEmit'])
                  \/ /\ waiters'[i].state = "resolved"
                     /\ waiters'[i].value = Append(waiters[i].buffer, ClearStream[nEmit'])

\* C24 (timeout 0): waitForSerialOutput(pattern, {timeout_msec: 0}) installs
\* no deadline; it never rejects and stays pending for as long as the pattern
\* has not appeared, however many non-matching bytes arrive.
C24_NoDeadline == []C24_NoTimer /\ [][C24_OnlyBytesSettle]_vars

\* called at the start with timeout 0, still pending after non-matching
\* bytes "xAA" while a waiter with a deadline has already been rejected
C24_Witness ==
    /\ Len(waiters) = 2
    /\ waiters[1].timeout = 0
    /\ waiters[1].state = "pending"
    /\ waiters[1].buffer = <<"x", "A", "A">>
    /\ waiters[2].state = "rejected"

\* ----------------------------------------------------------------------
\* Claims about the one-shot waits, under SpecOnce
\* C29 (one-shot listeners do not leak): a closure of waitForReady /
\* waitForStarted / waitForStopped that is still registered on a handle is
\* registered on the attached handle and has not been called; none is left
\* on a handle after detach() or after attach() to another handle, each is
\* removed when its event fires, and resolve() runs at most once.
C29_OneShotNoLeak ==
    \A i \in DOMAIN once :
        /\ once[i].on => once[i].h = emulator /\ once[i].resolves = 0
        /\ once[i].resolves <= 1
        /\ once[i].h = NoHandle => once[i].resolves = 1

\* C26 (echoing guest): when the guest echoes the typed line
\* "<command>; echo <endMarker>" before executing it, executeCommand does not
\* complete on the echoed line; it resolves only after the marker the echo
\* command itself printed, and its value is the command's output, not the
\* echoed command text.
C26_NotOnEcho ==
    \A i \in DOMAIN waiters :
        LET w == waiters[i]
            typed == SubSeq(CommandLine(w.command, w.expected), 1,
                            Len(w.command) + 7 + Len(w.expected))
        IN (tty /\ w.kind = "cmd" /\ w.state = "resolved") =>
              /\ includes(w.buffer, typed \o <<"\r", "\n">> \o ShellOutput(w.command) \o w.expected)
              /\ w.value = trim(ShellOutput(w.command))

\* the text of waiter w is what the guest emitted from the call of w on
SinceCall(w) == SubSeq(serialBuffer, w.since + 1, w.since + Len(w.buffer))

\* C27 (accumulator starts empty): the output of an executeCommand holds only
\* characters received after the call: while it is pending, all of them; a
\* sentinel already in the serial buffer at the call does not resolve it, and
\* its resolved value is made of the text received from the call to its own
\* sentinel.
C27_StartsEmpty ==
    /\ Len(serialBuffer) = nEmit
    /\ \A i \in DOMAIN waiters :
         LET w == waiters[i]
         IN w.kind = "cmd" /\ w.state # "rejected" =>
              /\ w.since + Len(w.buffer) <= nEmit
              /\ w.buffer = SinceCall(w)
              /\ w.state = "pending" =>
                   /\ w.since + Len(w.buffer) = nEmit
                   /\ ~includes(w.buffer, w.expected)
              /\ w.state = "resolved" =>
                   /\ includes(w.buffer, w.expected)
                   /\ ~includes(SubSeq(w.buffer, 1, Len(w.buffer) - 1), w.expected)
                   /\ w.value = Stripped(w.buffer, w.expected)

\* the second command was called with the first one's sentinel in the serial
\* buffer, and resolved with its own output alone
C27_Witness ==
    /\ ~tty
    /\ Len(waiters) = 2
    /\ waiters[1].command = Cmd1
    /\ waiters[2].command = Cmd2
    /\ waiters[2].state = "resolved"
    /\ waiters[2].since > 0
    /\ includes(SubSeq(serialBuffer, 1, waiters[2].since), waiters[2].expected)
    /\ waiters[2].value = <<"2">>

\* ----------------------------------------------------------------------
\* Claims about destroy() and a re-attach during its await, under SpecSwap
\* the step in which destroy() resumes after the handle's promise fulfilled
C28_Resumes == dst.state = "awaiting" /\ dst' # dst /\ dst'.state # "awaiting"

\* C28 (destroy detaches only what it destroyed): when attach(h2) ran while
\* destroy() was awaiting the destruction of h1, the completion of destroy()
\* leaves the controller attached to h2, with h2's serial byte listener, the
\* registry and the serial buffer as they were.
C28_KeepsNewHandle ==
    [][(C28_Resumes /\ dst.h \in Handles /\ emulator \in Handles \ {dst.h}) =>
          /\ emulator' = emulator
          /\ hreg' = hreg
          /\ serialByteListener' = serialByteListener
          /\ eventListeners' = eventListeners
          /\ serialBuffer' = serialBuffer]_vars

\* ----------------------------------------------------------------------
\* Claims about the V86Emulator components
\* the emulators constructed and not destroyed
Live == {i \in DOMAIN comp.insts : ~comp.insts[i].destroyed}

\* C25 (lifecycle of the v86-wrapper component): under every interleaving of
\* mount, unmount, remount, dependency change and completion of loadV86() at
\* most one emulator of the component is live, and it is the one in
\* emulatorRef; once the component is unmounted and no load is pending, every
\* emulator it constructed has had destroy() called and carries none of the
\* tracked listeners.
C25_LifecycleSafe ==
    /\ Cardinality(Live) <= 1
    /\ Live = IF comp.emulatorRef = 0 THEN {} ELSE {comp.emulatorRef}
    /\ \A i \in DOMAIN comp.insts :
         comp.insts[i].regs # {} => i = comp.emulatorRef /\ comp.insts[i].regs = comp.listeners
    /\ (comp.phase = "unmounted" /\ comp.loads = 0) =>
         \A i \in DOMAIN comp.insts :
             comp.insts[i].destroyed /\ comp.insts[i].regs = {}

\* unmounted with nothing pending after two emulators: one that was live with
\* its nine listeners until a re-run of the effect, one constructed by a load
\* that completed after the unmount
C25_Witness ==
    /\ comp.phase = "unmounted"
    /\ comp.loads = 0
    /\ Len(comp.insts) = 2
    /\ comp.insts[1].born = "mounted"
    /\ comp.insts[2].born = "unmounted"
    /\ comp.isInitialized

\* C30 (the components/v86 component destroys what it constructs): once the
\* component is unmounted and no load of the script is pending, every emulator
\* it constructed has been destroyed, also one constructed by a load that
\* completed after the unmount.
C30_AllDestroyed ==
    (comp.phase = "unmounted" /\ comp.loads = 0) =>
        \A i \in DOMAIN comp.insts : comp.insts[i].destroyed

====
